---- MODULE Spec2Model ----
(***************************************************************************)
(* Library management HTTP API (app.py): the books and members tables,     *)
(* the three validators and the six route handlers.                        *)
(*                                                                         *)
(* A string is a sequence of one-character strings, so that strip(),       *)
(* int(), the name pattern and LIKE matching are computed, not assumed.    *)
(* A JSON value is a record [kind, s, b, n]; a JSON body is either None or *)
(* a dict, a function from the keys present to JSON values.                *)
(***************************************************************************)
EXTENDS Integers, Sequences, FiniteSets, TLC

VARIABLES books, members, request, response

vars == <<books, members, request, response>>

(* ------------------------------ bounds --------------------------------- *)

\* The largest id a book gets in the model: create_book is not taken once the
\* next id would pass it, so the books table holds at most this many rows.
MaxBookId == 2

\* Most rows the members table holds in the model (create_member is capped).
MaxMembers == 1

(* ------------------------------ strings -------------------------------- *)

UpperLetters == <<"A", "B", "C", "D", "E", "F", "G", "H", "I", "J", "K", "L", "M",
                  "N", "O", "P", "Q", "R", "S", "T", "U", "V", "W", "X", "Y", "Z">>

LowerLetters == <<"a", "b", "c", "d", "e", "f", "g", "h", "i", "j", "k", "l", "m",
                  "n", "o", "p", "q", "r", "s", "t", "u", "v", "w", "x", "y", "z">>

Digits == <<"0", "1", "2", "3", "4", "5", "6", "7", "8", "9">>

IsUpper(c) == \E i \in 1..26 : UpperLetters[i] = c

IsLower(c) == \E i \in 1..26 : LowerLetters[i] = c

IsLetter(c) == IsUpper(c) \/ IsLower(c)

IsDigit(c) == \E i \in 1..10 : Digits[i] = c

IsSpace(c) == c \in {" ", "\t", "\n"}

\* lower() of one character, as SQL lower()/ILIKE folds ASCII letters.
ToLower(c) == IF IsUpper(c)
              THEN LowerLetters[CHOOSE i \in 1..26 : UpperLetters[i] = c]
              ELSE c

LowerStr(s) == [i \in 1..Len(s) |-> ToLower(s[i])]

DigitValue(c) == (CHOOSE i \in 1..10 : Digits[i] = c) - 1

\* str.lstrip(): leading whitespace removed.
RECURSIVE LStrip(_)
LStrip(s) == IF s # <<>> /\ IsSpace(Head(s)) THEN LStrip(Tail(s)) ELSE s

\* str.rstrip(): trailing whitespace removed.
RECURSIVE RStrip(_)
RStrip(s) == IF s # <<>> /\ IsSpace(s[Len(s)])
             THEN RStrip(SubSeq(s, 1, Len(s) - 1))
             ELSE s

\* A strip() that forgets the trailing whitespace.
StripLeftOnly(s) == LStrip(s)

\* str.strip(): leading and trailing whitespace removed.
Strip(s) == RStrip(LStrip(s))

(* ---------------------------- JSON values ------------------------------ *)

JStr(s) == [kind |-> "str", s |-> s, b |-> FALSE, n |-> 0]

JBool(b) == [kind |-> "bool", s |-> <<>>, b |-> b, n |-> 0]

JNum(n) == [kind |-> "num", s |-> <<>>, b |-> FALSE, n |-> n]

JNull == [kind |-> "null", s |-> <<>>, b |-> FALSE, n |-> 0]

\* request.get_json() returning None (a JSON body of null).
NoneData == [kind |-> "none", f |-> <<>>]

\* request.get_json() returning a dict holding the keys DOMAIN f.
Dict(f) == [kind |-> "dict", f |-> f]

\* `key in data` for a dict.
HasKey(data, key) == key \in DOMAIN data.f

\* Python truthiness of the body: None and {} are falsy.
Truthy(data) == data.kind = "dict" /\ DOMAIN data.f # {}

\* isinstance(v, str)
IsStr(v) == v.kind = "str"

\* bool(v) for a JSON value.
PyBool(v) == CASE v.kind = "bool" -> v.b
               [] v.kind = "str" -> v.s # <<>>
               [] v.kind = "num" -> v.n # 0
               [] OTHER -> FALSE

(* ------------------------------ validators ----------------------------- *)

\* A message is a sequence of text pieces (an f-string); <<>> is "".
NoMessage == <<>>

\* The per-field checks without the blank check.
FieldErrorNoBlank(data, field) ==
    IF ~HasKey(data, field) THEN <<"Missing required field: ", field>>
    ELSE IF ~IsStr(data.f[field]) THEN <<field, " must be a string">>
    ELSE NoMessage

\* The body of the loop of validate_book_data / validate_member_data for one
\* required field: the message of the first check that fails, or NoMessage.
FieldError(data, field) ==
    IF ~HasKey(data, field) THEN <<"Missing required field: ", field>>
    ELSE IF ~IsStr(data.f[field]) THEN <<field, " must be a string">>
    ELSE IF Strip(data.f[field].s) = <<>> THEN <<field, " cannot be empty">>
    ELSE NoMessage

\* The loop over required_fields (a sequence): stops at the first failure.
RECURSIVE RequiredFieldsError(_, _)
RequiredFieldsError(data, fields) ==
    IF fields = <<>> THEN NoMessage
    ELSE IF FieldError(data, Head(fields)) # NoMessage
         THEN FieldError(data, Head(fields))
         ELSE RequiredFieldsError(data, Tail(fields))

\* validate_book_data(data) -> (is_valid, error_message)
validate_book_data(data) ==
    IF ~Truthy(data) THEN [ok |-> FALSE, message |-> <<"No data provided">>]
    ELSE LET e == RequiredFieldsError(data, <<"title", "author">>)
         IN  [ok |-> e = NoMessage, message |-> e]

MinNameLen == 2

MaxNameLen == 50

\* One character of the class [a-zA-Z\s-].
IsNameChar(c) == IsLetter(c) \/ IsSpace(c) \/ c = "-"

\* re.match(r'^[a-zA-Z\s-]{2,50}$', name): `$` also matches before a final
\* newline, so a 51st character is accepted when it is "\n".
NameMatches(name) ==
    /\ \A i \in 1..Len(name) : IsNameChar(name[i])
    /\ \/ Len(name) \in MinNameLen..MaxNameLen
       \/ Len(name) = MaxNameLen + 1 /\ name[Len(name)] = "\n"

\* Positions of "@" in an address.
AtPositions(email) == {i \in 1..Len(email) : email[i] = "@"}

\* The syntax check validate_email() makes, reduced to its shape: one "@",
\* a non-empty local part, a domain of at least two non-empty dot-separated
\* labels, no whitespace anywhere.
EmailSyntaxOK(email) ==
    /\ Cardinality(AtPositions(email)) = 1
    /\ \A i \in 1..Len(email) : ~IsSpace(email[i])
    /\ LET at == CHOOSE i \in AtPositions(email) : TRUE
           n == Len(email)
       IN  /\ at > 1
           /\ at < n
           /\ email[at + 1] # "."
           /\ email[n] # "."
           /\ \E i \in (at + 2)..(n - 1) : email[i] = "."
           /\ \A i \in (at + 1)..(n - 1) : ~(email[i] = "." /\ email[i + 1] = ".")

\* validate_member_data(data) -> (is_valid, error_message); raised is TRUE
\* where validate_email() raises instead of returning.
validate_member_data(data) ==
    IF ~Truthy(data)
    THEN [ok |-> FALSE, message |-> <<"No data provided">>, raised |-> FALSE]
    ELSE LET e == RequiredFieldsError(data, <<"name", "email">>)
         IN  IF e # NoMessage THEN [ok |-> FALSE, message |-> e, raised |-> FALSE]
             ELSE IF ~NameMatches(data.f["name"].s)
             THEN [ok |-> FALSE,
                   message |-> <<"Name must be 2-50 characters and contain only letters, spaces, and hyphens">>,
                   raised |-> FALSE]
             ELSE IF ~EmailSyntaxOK(data.f["email"].s)
             THEN [ok |-> FALSE, message |-> <<"Invalid email address">>, raised |-> TRUE]
             ELSE [ok |-> TRUE, message |-> NoMessage, raised |-> FALSE]

\* An optional query-string argument: request.args.get(name) is None or a string.
NoArg == [given |-> FALSE, s |-> <<>>]

Arg(s) == [given |-> TRUE, s |-> s]

\* Python truthiness of request.args.get(name): None and "" are falsy.
ArgTruthy(a) == a.given /\ a.s # <<>>

\* The value of a run of decimal digits.
RECURSIVE DigitsValue(_)
DigitsValue(s) == IF s = <<>> THEN 0
                  ELSE 10 * DigitsValue(SubSeq(s, 1, Len(s) - 1)) + DigitValue(s[Len(s)])

\* int(s) for a string: surrounding whitespace and one sign are allowed, then
\* at least one digit and nothing else; ok is FALSE where int() raises ValueError.
PyInt(s) ==
    LET t == Strip(s)
        signed == t # <<>> /\ t[1] \in {"+", "-"}
        d == IF signed THEN Tail(t) ELSE t
    IN  IF d # <<>> /\ \A i \in 1..Len(d) : IsDigit(d[i])
        THEN [ok |-> TRUE,
              v |-> IF signed /\ t[1] = "-" THEN 0 - DigitsValue(d) ELSE DigitsValue(d)]
        ELSE [ok |-> FALSE, v |-> 0]

DefaultPage == 1

DefaultPerPage == 10

MaxPerPage == 100

\* The empty mapping {} returned on failure.
NoParams == [present |-> FALSE, page |-> 0, per_page |-> 0]

\* validate_pagination_params with the upper limit of per_page left out.
validate_pagination_params_no_upper(page, per_page) ==
    LET p == IF ArgTruthy(page) THEN PyInt(page.s) ELSE [ok |-> TRUE, v |-> DefaultPage]
        q == IF ArgTruthy(per_page) THEN PyInt(per_page.s)
                                    ELSE [ok |-> TRUE, v |-> DefaultPerPage]
    IN  IF ~p.ok \/ ~q.ok
        THEN [ok |-> FALSE, message |-> <<"Invalid pagination parameters">>, params |-> NoParams]
        ELSE IF p.v < 1
        THEN [ok |-> FALSE, message |-> <<"Page number must be positive">>, params |-> NoParams]
        ELSE IF q.v < 1
        THEN [ok |-> FALSE, message |-> <<"Items per page must be between 1 and 100">>,
              params |-> NoParams]
        ELSE [ok |-> TRUE, message |-> NoMessage,
              params |-> [present |-> TRUE, page |-> p.v, per_page |-> q.v]]

\* validate_pagination_params(page, per_page) -> (is_valid, message, params)
validate_pagination_params(page, per_page) ==
    LET p == IF ArgTruthy(page) THEN PyInt(page.s) ELSE [ok |-> TRUE, v |-> DefaultPage]
        q == IF ArgTruthy(per_page) THEN PyInt(per_page.s)
                                    ELSE [ok |-> TRUE, v |-> DefaultPerPage]
    IN  IF ~p.ok \/ ~q.ok
        THEN [ok |-> FALSE, message |-> <<"Invalid pagination parameters">>, params |-> NoParams]
        ELSE IF p.v < 1
        THEN [ok |-> FALSE, message |-> <<"Page number must be positive">>, params |-> NoParams]
        ELSE IF q.v < 1 \/ q.v > MaxPerPage
        THEN [ok |-> FALSE, message |-> <<"Items per page must be between 1 and 100">>,
              params |-> NoParams]
        ELSE [ok |-> TRUE, message |-> NoMessage,
              params |-> [present |-> TRUE, page |-> p.v, per_page |-> q.v]]

(* ------------------------------ the store ------------------------------ *)

\* The ids of the rows of a table (a sequence of rows in insertion order).
Ids(table) == {table[i].id : i \in 1..Len(table)}

MaxOf(S) == CHOOSE m \in S : \A x \in S : x <= m

\* The id the database gives the next inserted row: an integer primary key
\* of an SQLite table is max(id) + 1, and 1 in an empty table.
NextId(table) == IF table = <<>> THEN 1 ELSE MaxOf(Ids(table)) + 1

\* Model.query.get(id): the row with this primary key, or None.
NoRow == [id |-> 0]

QueryGet(table, id) ==
    IF id \in Ids(table)
    THEN table[CHOOSE i \in 1..Len(table) : table[i].id = id]
    ELSE NoRow

\* A delete that takes the first row of the table whatever the id.
DeleteFirstRow(table, id) == Tail(table)

\* db.session.delete(row); db.session.commit()
RECURSIVE DeleteRow(_, _)
DeleteRow(table, id) ==
    IF table = <<>> THEN <<>>
    ELSE IF Head(table).id = id THEN Tail(table)
    ELSE <<Head(table)>> \o DeleteRow(Tail(table), id)

\* Model.query.all() without ORDER BY: the table scan, in primary-key order.
RECURSIVE QueryAll(_)
QueryAll(table) ==
    IF table = <<>> THEN <<>>
    ELSE LET lo == CHOOSE m \in Ids(table) : \A x \in Ids(table) : m <= x
         IN  <<QueryGet(table, lo)>> \o QueryAll(DeleteRow(table, lo))

\* The `available` column of Book: a Boolean column whose default is true.
\* A bool is stored, None takes the column default, anything else is refused
\* by the column type when the session is flushed.
AvailableColumn(v) ==
    CASE v.kind = "bool" -> [ok |-> TRUE, value |-> v]
      [] v.kind = "null" -> [ok |-> TRUE, value |-> JBool(TRUE)]
      [] OTHER -> [ok |-> FALSE, value |-> v]

\* SQL LIKE of a string against a pattern: % matches any run of characters,
\* _ matches any one character, every other character matches itself.
RECURSIVE Like(_, _)
Like(s, pat) ==
    IF pat = <<>> THEN s = <<>>
    ELSE IF Head(pat) = "%"
         THEN \E k \in 0..Len(s) : Like(SubSeq(s, k + 1, Len(s)), Tail(pat))
    ELSE IF s = <<>> THEN FALSE
    ELSE IF Head(pat) = "_" \/ Head(pat) = Head(s) THEN Like(Tail(s), Tail(pat))
    ELSE FALSE

\* column.ilike(pattern): LIKE with both sides lower-cased.
ILike(s, pat) == Like(LowerStr(s), LowerStr(pat))

\* column.ilike(f"%{term}%")
ILikeContains(s, term) == ILike(s, <<"%">> \o term \o <<"%">>)

\* What search_books asks of a row: each filter that was added must match.
Matches(row, title, author) ==
    /\ title # <<>> => ILikeContains(row.title, title)
    /\ author # <<>> => ILikeContains(row.author, author)

\* query.filter(...).all(): the rows that match, in scan order.
RECURSIVE FilterRows(_, _, _)
FilterRows(rows, title, author) ==
    IF rows = <<>> THEN <<>>
    ELSE (IF Matches(Head(rows), title, author) THEN <<Head(rows)>> ELSE <<>>)
         \o FilterRows(Tail(rows), title, author)

\* ceil(total / per_page) of the pagination object; 0 for an empty result.
Pages(total, per_page) ==
    IF total = 0 THEN 0 ELSE (total + per_page - 1) \div per_page

\* query.limit(per_page).offset(page * per_page): an offset one page too far.
PageItemsOffByOne(rows, page, per_page) ==
    LET first == page * per_page + 1
        last == IF first + per_page - 1 < Len(rows) THEN first + per_page - 1 ELSE Len(rows)
    IN  SubSeq(rows, first, last)

\* query.limit(per_page).offset((page - 1) * per_page)
PageItems(rows, page, per_page) ==
    LET first == (page - 1) * per_page + 1
        last == IF first + per_page - 1 < Len(rows) THEN first + per_page - 1 ELSE Len(rows)
    IN  SubSeq(rows, first, last)

\* Book.query.paginate(page=, per_page=, error_out=False)
Paginate(table, page, per_page) ==
    LET rows == QueryAll(table)
        total == Len(rows)
    IN  [total |-> total,
         pages |-> Pages(total, per_page),
         page |-> page,
         per_page |-> per_page,
         has_next |-> page < Pages(total, per_page),
         has_prev |-> page > 1,
         items |-> PageItems(rows, page, per_page)]

(* --------------------------- requests, responses ------------------------ *)

\* No request is being served: the last response has been sent.
NoRequest == [op |-> "none"]

NoResponse == [status |-> 0]

Idle == request.op = "none"

\* Book.to_dict() / Member.to_dict(): a row is kept as its dict.
NotFound == [status |-> 404, error |-> "Not found", message |-> <<"Book not found">>]

\* An exception no handler catches: Flask answers 500.
ServerError == [status |-> 500]

\* data.get('available', True)
GetAvailable(data) ==
    IF HasKey(data, "available") THEN data.f["available"] ELSE JBool(TRUE)

\* Book(title=data['title'].strip(), author=data['author'].strip(), available=...)
NewBook(table, data, available) ==
    [id |-> NextId(table),
     title |-> Strip(data.f["title"].s),
     author |-> Strip(data.f["author"].s),
     available |-> available]

\* The fields update_book assigns, key by key.
UpdatedBook(book, data) ==
    [id |-> book.id,
     title |-> IF HasKey(data, "title") THEN Strip(data.f["title"].s) ELSE book.title,
     author |-> IF HasKey(data, "author") THEN Strip(data.f["author"].s) ELSE book.author,
     available |-> IF HasKey(data, "available")
                   THEN JBool(PyBool(data.f["available"]))
                   ELSE book.available]

\* An update written to every row (no filter on the id).
ReplaceEveryRow(table, row) == [i \in 1..Len(table) |-> row]

\* The table with the row of this id replaced.
ReplaceRow(table, row) ==
    [i \in 1..Len(table) |-> IF table[i].id = row.id THEN row ELSE table[i]]

(* ------------------------------ handlers ------------------------------- *)

\* POST /books
create_book(data) ==
    /\ Idle
    /\ request' = [op |-> "create_book", data |-> data]
    /\ LET v == validate_book_data(data)
       IN  IF ~v.ok
           THEN /\ response' = [status |-> 400, error |-> "Validation failed",
                                message |-> v.message]
                /\ UNCHANGED <<books, members>>
           ELSE LET col == AvailableColumn(GetAvailable(data))
                    new_book == NewBook(books, data, col.value)
                IN  IF ~col.ok
                    THEN /\ response' = ServerError
                         /\ UNCHANGED <<books, members>>
                    ELSE /\ NextId(books) <= MaxBookId
                         /\ books' = Append(books, new_book)
                         /\ response' = [status |-> 201,
                                         message |-> <<"Book created successfully">>,
                                         book |-> new_book]
                         /\ UNCHANGED members

\* update_book with the id looked up before the body is validated.
update_book_lookup_first(book_id, data) ==
    /\ Idle
    /\ request' = [op |-> "update_book", book_id |-> book_id, data |-> data]
    /\ IF data.kind = "none"
       THEN /\ response' = ServerError
            /\ UNCHANGED <<books, members>>
       ELSE IF book_id \notin Ids(books)
       THEN /\ response' = NotFound
            /\ UNCHANGED <<books, members>>
       ELSE IF (HasKey(data, "title") \/ HasKey(data, "author"))
               /\ ~validate_book_data(data).ok
       THEN /\ response' = [status |-> 400, error |-> "Validation failed",
                            message |-> validate_book_data(data).message]
            /\ UNCHANGED <<books, members>>
       ELSE LET book == UpdatedBook(QueryGet(books, book_id), data)
            IN  /\ books' = ReplaceRow(books, book)
                /\ response' = [status |-> 200,
                                message |-> <<"Book updated successfully">>,
                                book |-> book]
                /\ UNCHANGED members

\* PUT /books/<int:book_id>
update_book(book_id, data) ==
    /\ Idle
    /\ request' = [op |-> "update_book", book_id |-> book_id, data |-> data]
    /\ IF data.kind = "none"
       THEN \* `key in data` raises TypeError on None
            /\ response' = ServerError
            /\ UNCHANGED <<books, members>>
       ELSE IF (HasKey(data, "title") \/ HasKey(data, "author"))
               /\ ~validate_book_data(data).ok
       THEN /\ response' = [status |-> 400, error |-> "Validation failed",
                            message |-> validate_book_data(data).message]
            /\ UNCHANGED <<books, members>>
       ELSE IF book_id \notin Ids(books)
       THEN /\ response' = NotFound
            /\ UNCHANGED <<books, members>>
       ELSE LET book == UpdatedBook(QueryGet(books, book_id), data)
            IN  /\ books' = ReplaceRow(books, book)
                /\ response' = [status |-> 200,
                                message |-> <<"Book updated successfully">>,
                                book |-> book]
                /\ UNCHANGED members

\* DELETE /books/<int:book_id>
delete_book(book_id) ==
    /\ Idle
    /\ request' = [op |-> "delete_book", book_id |-> book_id]
    /\ IF book_id \notin Ids(books)
       THEN /\ response' = NotFound
            /\ UNCHANGED <<books, members>>
       ELSE /\ books' = DeleteRow(books, book_id)
            /\ response' = [status |-> 200, message |-> <<"Book deleted successfully">>]
            /\ UNCHANGED members

\* POST /members
create_member(data) ==
    /\ Idle
    /\ request' = [op |-> "create_member", data |-> data]
    /\ IF ~Truthy(data) \/ ~HasKey(data, "name") \/ ~HasKey(data, "email")
       THEN /\ response' = [status |-> 400, error |-> "Validation failed",
                            message |-> <<"Name and Email are required">>]
            /\ UNCHANGED <<books, members>>
       ELSE LET new_member == [id |-> NextId(members),
                               name |-> data.f["name"],
                               email |-> data.f["email"]]
            IN  /\ Len(members) < MaxMembers
                /\ members' = Append(members, new_member)
                /\ response' = [status |-> 201,
                                message |-> <<"Member created successfully">>,
                                member |-> new_member]
                /\ UNCHANGED books

\* GET /books/search
search_books(title_arg, author_arg) ==
    /\ Idle
    /\ request' = [op |-> "search_books", title |-> title_arg, author |-> author_arg]
    /\ LET title == Strip(title_arg.s)
           author == Strip(author_arg.s)
       IN  IF title = <<>> /\ author = <<>>
           THEN response' = [status |-> 400, error |-> "Bad request",
                             message |-> <<"At least one search parameter (title or author) is required">>]
           ELSE LET found == FilterRows(QueryAll(books), title, author)
                IN  response' = [status |-> 200, count |-> Len(found), books |-> found]
    /\ UNCHANGED <<books, members>>

\* GET /books
get_books(page, per_page) ==
    /\ Idle
    /\ request' = [op |-> "get_books", page |-> page, per_page |-> per_page]
    /\ LET v == validate_pagination_params(page, per_page)
       IN  IF ~v.ok
           THEN response' = [status |-> 400, error |-> "Bad request", message |-> v.message]
           ELSE LET books_pagination == Paginate(books, v.params.page, v.params.per_page)
                IN  response' = [status |-> 200,
                                 total_books |-> books_pagination.total,
                                 total_pages |-> books_pagination.pages,
                                 current_page |-> books_pagination.page,
                                 per_page |-> books_pagination.per_page,
                                 has_next |-> books_pagination.has_next,
                                 has_prev |-> books_pagination.has_prev,
                                 books |-> books_pagination.items]
    /\ UNCHANGED <<books, members>>

\* The response is returned and the request context is torn down; nothing of
\* the request survives it.
EndRequest ==
    /\ ~Idle
    /\ request' = NoRequest
    /\ response' = NoResponse
    /\ UNCHANGED <<books, members>>

(* ------------------------------- inputs -------------------------------- *)

TitlePadded == JStr(<<" ", "D", "u", "n", "e", " ">>)

TitlePlain == JStr(<<"e", "m", "m", "a">>)

TitleBlank == JStr(<<" ", " ">>)

AuthorPadded == JStr(<<"F", "r", "a", "n", "k", " ">>)

AuthorPlain == JStr(<<"l", "e", "e">>)

AuthorEmpty == JStr(<<>>)

\* A dict with up to three keys; Absent leaves the key out.
Absent == [kind |-> "absent", s |-> <<>>, b |-> FALSE, n |-> 0]

Body(title, author, available) ==
    LET v == [k \in {"title", "author", "available"} |->
                 CASE k = "title" -> title
                   [] k = "author" -> author
                   [] k = "available" -> available]
    IN  Dict([k \in {x \in DOMAIN v : v[x] # Absent} |-> v[k]])

\* Bodies that pass validate_book_data: both strings present and not blank.
ValidBodies ==
    {Body(TitlePadded, AuthorPadded, Absent),
     Body(TitlePlain, AuthorPlain, Absent),
     Body(TitlePadded, AuthorPlain, JBool(FALSE)),
     Body(TitlePlain, AuthorPadded, JBool(TRUE)),
     Body(TitlePadded, AuthorPadded, JNull),
     Body(TitlePlain, AuthorPlain, JStr(<<"n", "o">>))}

\* Bodies holding a proper subset of the keys, every value present well-formed.
PartialBodies ==
    {Body(Absent, Absent, Absent),
     Body(TitlePlain, Absent, Absent),
     Body(Absent, AuthorPlain, Absent),
     Body(Absent, Absent, JBool(FALSE)),
     Body(Absent, Absent, JBool(TRUE)),
     Body(Absent, Absent, JNull),
     Body(Absent, Absent, JStr(<<"n", "o">>)),
     Body(TitlePadded, Absent, JBool(FALSE)),
     Body(Absent, AuthorPadded, JBool(TRUE))}

\* Bodies with a title or an author that is blank or not a string.
MalformedBodies ==
    {Body(TitleBlank, AuthorPadded, Absent),
     Body(JNum(7), AuthorPadded, Absent),
     Body(TitlePadded, AuthorEmpty, Absent),
     Body(TitlePadded, JNull, JBool(FALSE)),
     Body(TitleBlank, Absent, Absent),
     Body(Absent, AuthorEmpty, JBool(FALSE))}

\* The JSON bodies sent to create_book and update_book.
BookBodies == {NoneData} \cup ValidBodies \cup PartialBodies \cup MalformedBodies

\* The ids asked for: every id a row can have, and one no row has.
BookIds == 1..(MaxBookId + 1)

NameValid == JStr(<<"A", "n", "n", "a", " ", "L", "i">>)

NameDigit == JStr(<<"A", "1">>)

EmailValid == JStr(<<"a", "@", "b", ".", "c", "o", "m">>)

EmailInvalid == JStr(<<"n", "o", "t", "-", "a", "n", "-", "e", "m", "a", "i", "l">>)

MemberBody(name, email) ==
    LET v == [k \in {"name", "email"} |-> IF k = "name" THEN name ELSE email]
    IN  Dict([k \in {x \in DOMAIN v : v[x] # Absent} |-> v[k]])

\* The JSON bodies sent to create_member.
MemberBodies ==
    {NoneData,
     MemberBody(Absent, Absent),
     MemberBody(NameValid, Absent),
     MemberBody(Absent, EmailValid),
     MemberBody(NameValid, EmailValid),
     MemberBody(NameDigit, EmailInvalid)}

TitleArgs == {NoArg, Arg(<<" ", " ">>), Arg(<<"d", "u", "n">>), Arg(<<" ", "E", "M", " ">>),
              Arg(<<"d", "_", "n">>)}

AuthorArgs == {NoArg, Arg(<<"F", "R">>), Arg(<<"e", "e">>), Arg(<<"%">>)}

PageArgs == {NoArg, Arg(<<>>), Arg(<<"1">>), Arg(<<" ", "2">>), Arg(<<"3">>), Arg(<<"0">>),
             Arg(<<"-", "1">>), Arg(<<"x">>)}

PerPageArgs == {NoArg, Arg(<<>>), Arg(<<"1">>), Arg(<<"2">>), Arg(<<"1", "0", "0">>),
                Arg(<<"1", "0", "1">>), Arg(<<"0">>), Arg(<<"1", "x">>)}

(* ---------------------------- specification ---------------------------- *)

\* After db.create_all() on a fresh database: both tables empty.
Init ==
    /\ books = <<>>
    /\ members = <<>>
    /\ request = NoRequest
    /\ response = NoResponse

Next ==
    \/ \E data \in BookBodies : create_book(data)
    \/ \E book_id \in BookIds, data \in BookBodies : update_book(book_id, data)
    \/ \E book_id \in BookIds : delete_book(book_id)
    \/ \E data \in MemberBodies : create_member(data)
    \/ \E title \in TitleArgs, author \in AuthorArgs : search_books(title, author)
    \/ \E page \in PageArgs, per_page \in PerPageArgs : get_books(page, per_page)
    \/ EndRequest

\* Every request the API serves, in any order, one at a time.
Spec == Init /\ [][Next]_vars

NextWrites ==
    \/ \E data \in BookBodies : create_book(data)
    \/ \E book_id \in BookIds, data \in BookBodies : update_book(book_id, data)
    \/ \E book_id \in BookIds : delete_book(book_id)
    \/ \E data \in MemberBodies : create_member(data)
    \/ EndRequest

\* The requests that write to the store.
SpecWrites == Init /\ [][NextWrites]_vars

NextReads ==
    \/ \E data \in ValidBodies : create_book(data)
    \/ \E book_id \in BookIds : delete_book(book_id)
    \/ \E title \in TitleArgs, author \in AuthorArgs : search_books(title, author)
    \/ \E page \in PageArgs, per_page \in PerPageArgs : get_books(page, per_page)
    \/ EndRequest

\* The two read requests, over every books table that creates and deletes build.
SpecReads == Init /\ [][NextReads]_vars

(* ------------------------------- claims -------------------------------- *)

\* No leading and no trailing whitespace.
Trimmed(s) == s = <<>> \/ (~IsSpace(s[1]) /\ ~IsSpace(s[Len(s)]))

\* A title or author value that create and update must refuse: not a string,
\* or a string that is blank once trimmed.
Malformed(v) == v.kind # "str" \/ \A i \in 1..Len(v.s) : IsSpace(v.s[i])

\* Some title/author present in the dict is malformed.
MalformedPresent(data) ==
    \E k \in {"title", "author"} \cap DOMAIN data.f : Malformed(data.f[k])

\* t occurs in s as a contiguous run of characters.
Contains(s, t) ==
    \E k \in 0..(Len(s) - Len(t)) : SubSeq(s, k + 1, k + Len(t)) = t

\* The rows of a table other than the one with this id, in order.
Without(table, id) ==
    LET Keep(r) == r.id # id
    IN  SelectSeq(table, Keep)

\* C1: every persisted member has a name of 2-50 letters, spaces and hyphens
\* and a syntactically valid email address.
C1_MembersSatisfyConstraints ==
    \A i \in 1..Len(members) :
        /\ members[i].name.kind = "str"
        /\ Len(members[i].name.s) \in 2..50
        /\ \A j \in 1..Len(members[i].name.s) :
               IsLetter(members[i].name.s[j]) \/ members[i].name.s[j] \in {" ", "-"}
        /\ members[i].email.kind = "str"
        /\ EmailSyntaxOK(members[i].email.s)

\* C2: update-book on an existing id with a dict body in which every title or
\* author that is present is a non-blank string answers 200, changes exactly
\* the fields present (title/author trimmed) and keeps the absent ones.
C2_PartialUpdateAccepted ==
    [][(/\ request'.op = "update_book"
        /\ request'.data.kind = "dict"
        /\ request'.book_id \in Ids(books)
        /\ ~MalformedPresent(request'.data))
       => LET d == request'.data
              old == QueryGet(books, request'.book_id)
              new == QueryGet(books', request'.book_id)
          IN  /\ response'.status = 200
              /\ new.id = old.id
              /\ new.title = IF "title" \in DOMAIN d.f THEN Strip(d.f["title"].s)
                                                       ELSE old.title
              /\ new.author = IF "author" \in DOMAIN d.f THEN Strip(d.f["author"].s)
                                                         ELSE old.author
              /\ "available" \notin DOMAIN d.f => new.available = old.available]_vars

\* C3: update-book on an existing id with the body {available: false} answers
\* 200, sets available to false and changes nothing else: not the book's id,
\* title or author, no other book, no member.
C3_AvailableOnlyUpdate ==
    [][(/\ request'.op = "update_book"
        /\ request'.data = Body(Absent, Absent, JBool(FALSE))
        /\ request'.book_id \in Ids(books))
       => /\ response'.status = 200
          /\ Len(books') = Len(books)
          /\ \A i \in 1..Len(books) :
                 IF books[i].id = request'.book_id
                 THEN /\ books'[i].id = books[i].id
                      /\ books'[i].title = books[i].title
                      /\ books'[i].author = books[i].author
                      /\ books'[i].available = JBool(FALSE)
                 ELSE books'[i] = books[i]
          /\ members' = members]_vars

\* C3 witness: the update answered 200 for a book that has a neighbour, with a
\* member in the store.
C3_Witness ==
    /\ request.op = "update_book"
    /\ request.data = Body(Absent, Absent, JBool(FALSE))
    /\ response.status = 200
    /\ response.book.available = JBool(FALSE)
    /\ Len(books) >= 2
    /\ Len(members) >= 1

C5_BooksSatisfyConstraints ==
    /\ \A i \in 1..Len(books) :
           /\ books[i].title # <<>> /\ Trimmed(books[i].title)
           /\ books[i].author # <<>> /\ Trimmed(books[i].author)
           /\ books[i].available.kind = "bool"
    /\ (/\ request.op = "create_book"
        /\ response.status = 201
        /\ request.data.f["title"] = TitlePadded)
       => /\ response.book.title = <<"D", "u", "n", "e">>
          /\ \E i \in 1..Len(books) : books[i] = response.book

\* C5 witness: a book was created from a padded title and a padded author,
\* and another book has since been updated.
C5_Witness ==
    /\ request.op = "update_book"
    /\ response.status = 200
    /\ request.data = Body(TitlePadded, AuthorPadded, JNull)
    /\ response.book.title = <<"D", "u", "n", "e">>
    /\ response.book.author = <<"F", "r", "a", "n", "k">>
    /\ Len(books) >= 2

\* C6: delete-book answers 404 exactly when no stored book has the id, and
\* then changes nothing; otherwise it answers 200 and removes that book and
\* no other, so that the id is gone afterwards.
C6_DeleteBook ==
    [][request'.op = "delete_book"
       => /\ response'.status = 404 <=> request'.book_id \notin Ids(books)
          /\ request'.book_id \notin Ids(books) => books' = books
          /\ request'.book_id \in Ids(books)
             => /\ response'.status = 200
                /\ books' = Without(books, request'.book_id)
                /\ Len(books') = Len(books) - 1
          /\ request'.book_id \notin Ids(books')
          /\ members' = members]_vars

\* C6 witness: a delete answered 200 and left another book in the store.
C6_Witness ==
    /\ request.op = "delete_book"
    /\ response.status = 200
    /\ Len(books) >= 1
    /\ request.book_id < books[1].id

\* C10: update-book validates before it looks the id up: a malformed title or
\* author gives 400 whether or not the id exists, 404 is given only for a
\* well-formed body and an id no book has, and neither changes the store.
C10_ValidateBeforeLookup ==
    [][request'.op = "update_book"
       => /\ MalformedPresent(request'.data) => response'.status = 400
          /\ response'.status = 404
             => /\ request'.book_id \notin Ids(books)
                /\ ~MalformedPresent(request'.data)
          /\ response'.status \in {400, 404}
             => books' = books /\ members' = members]_vars

\* C10 witness: a malformed body sent to an id no book has was answered 400,
\* with books in the store.
C10_Witness ==
    /\ request.op = "update_book"
    /\ request.data.kind = "dict"
    /\ MalformedPresent(request.data)
    /\ request.book_id \notin Ids(books)
    /\ response.status = 400
    /\ Len(books) >= 1

\* A query argument counts as absent when it is missing or empty.
Defaulted(a) == ~a.given \/ a.s = <<>>

\* The smallest n with n * b >= a.
CeilDiv(a, b) == CHOOSE n \in 0..a : n * b >= a /\ (n = 0 \/ (n - 1) * b < a)

\* C7: GET /books with valid pagination answers 200 with total_books the
\* number of stored books, total_pages = ceil(total_books / per_page), the
\* validated page and per_page echoed, has_prev iff page > 1, has_next iff
\* page < total_pages, and books the stored books at offsets
\* (page-1)*per_page+1 .. page*per_page in insertion order (none past the
\* end); the store is not changed.
C7_ListBooks ==
    [][request'.op = "get_books"
       => /\ books' = books
          /\ members' = members
          /\ validate_pagination_params(request'.page, request'.per_page).ok
             => LET page == IF Defaulted(request'.page) THEN 1
                            ELSE PyInt(request'.page.s).v
                    per_page == IF Defaulted(request'.per_page) THEN 10
                                ELSE PyInt(request'.per_page.s).v
                    total == Len(books)
                    offset == (page - 1) * per_page
                    r == response'
                IN  /\ r.status = 200
                    /\ r.total_books = total
                    /\ r.total_pages = CeilDiv(total, per_page)
                    /\ r.current_page = page
                    /\ r.per_page = per_page
                    /\ r.has_prev <=> page > 1
                    /\ r.has_next <=> page < r.total_pages
                    /\ Len(r.books) <= per_page
                    /\ Len(r.books) = IF total - offset > per_page THEN per_page
                                      ELSE IF total > offset THEN total - offset
                                      ELSE 0
                    /\ \A j \in 1..Len(r.books) : r.books[j] = books[offset + j]]_vars

\* C7 witness: the second page, of one book per page, was served: it has a
\* predecessor, one book on it, and is the last of two pages.
C7_Witness ==
    /\ request.op = "get_books"
    /\ response.status = 200
    /\ response.current_page = 2
    /\ response.has_prev
    /\ Len(response.books) = 1
    /\ response.total_pages = 2

\* C8: search-books answers 400 when neither title nor author is given
\* (blank counts as not given); otherwise 200 with exactly the stored books
\* whose title contains the title parameter and whose author contains the
\* author parameter, case-insensitively, a missing parameter asking nothing,
\* and count is the number of books returned.
C8_SearchIsSubstringMatch ==
    request.op = "search_books"
    => LET title == Strip(request.title.s)
           author == Strip(request.author.s)
           hit == {i \in 1..Len(books) :
                      /\ title # <<>>
                         => Contains(LowerStr(books[i].title), LowerStr(title))
                      /\ author # <<>>
                         => Contains(LowerStr(books[i].author), LowerStr(author))}
       IN  IF title = <<>> /\ author = <<>>
           THEN response.status = 400
           ELSE /\ response.status = 200
                /\ response.count = Len(response.books)
                /\ response.count = Cardinality(hit)
                /\ \A i \in hit : \E j \in 1..Len(response.books) :
                       response.books[j] = books[i]

\* C9: validate_pagination_params succeeds exactly when page (1 when absent
\* or empty) parses to an integer >= 1 and per_page (10 when absent or empty)
\* parses to an integer in 1..100; on success the message is empty and the
\* mapping holds the parsed values, on failure the message is not empty and
\* the mapping is; get_books answers 200 or 400 accordingly.
C9_PaginationParams ==
    request.op = "get_books"
    => LET r == validate_pagination_params(request.page, request.per_page)
           p == IF Defaulted(request.page) THEN [ok |-> TRUE, v |-> 1]
                ELSE PyInt(request.page.s)
           q == IF Defaulted(request.per_page) THEN [ok |-> TRUE, v |-> 10]
                ELSE PyInt(request.per_page.s)
           good == p.ok /\ q.ok /\ p.v >= 1 /\ q.v >= 1 /\ q.v <= 100
       IN  /\ r.ok <=> good
           /\ r.ok => /\ r.message = <<>>
                      /\ r.params = [present |-> TRUE, page |-> p.v, per_page |-> q.v]
           /\ ~r.ok => r.message # <<>> /\ r.params = NoParams
           /\ response.status = IF good THEN 200 ELSE 400

\* C9 witness: per_page=101 was refused.
C9_Witness ==
    /\ request.op = "get_books"
    /\ request.per_page = Arg(<<"1", "0", "1">>)
    /\ request.page = Arg(<<" ", "2">>)
    /\ response.status = 400
    /\ response.message = <<"Items per page must be between 1 and 100">>

====
